---- MODULE Spec2Model ----
(***************************************************************************)
(* Model of the bui-compiler compilation pipeline: parseBUI               *)
(* (src/src/core/parser.ts), mergeBuiFiles (src/src/core/merger.ts), the  *)
(* schema validators (src/src/core/validator.ts) and the diagnostic       *)
(* constructors (error-reporter part of src/src/index.ts).                *)
(*                                                                         *)
(* A block of .bui text is a record: the keyword it starts with, what      *)
(* follows the keyword (a colon, whitespace and a colon, or no colon),     *)
(* and the parsed shape of its body.  JSON values are records whose       *)
(* fields say which schema checks they pass.                               *)
(***************************************************************************)
EXTENDS Integers, Sequences, FiniteSets, TLC

\* ---------------------------------------------------------------- bounds
MaxBlocks == 3
MaxList == 2
MaxWellFormed == 4
MaxEntry == 2

\* ------------------------------------------------------- sequence helpers
Range(s) == {s[i] : i \in 1..Len(s)}

RECURSIVE SeqsUpTo(_, _)
SeqsUpTo(S, n) ==
  IF n = 0 THEN {<<>>}
  ELSE LET shorter == SeqsUpTo(S, n - 1)
       IN shorter \cup {Append(s, x) : s \in {t \in shorter : Len(t) = n - 1}, x \in S}

RECURSIVE Concat(_)
Concat(ss) == IF ss = <<>> THEN <<>> ELSE Head(ss) \o Concat(Tail(ss))

\* optional JSON members: <<>> is an absent key, <<v>> a key holding v
None == <<>>
Some(v) == <<v>>
IsSome(o) == Len(o) = 1
Get(o) == o[1]

StartsWith(s, p) == Len(p) <= Len(s) /\ SubSeq(s, 1, Len(p)) = p

\* ------------------------------------------------------------ error codes
\* enum ErrorCode
ErrorCode ==
  [INVALID_SYNTAX |-> "E001",
   MISSING_COLON |-> "E002",
   INVALID_VERSION |-> "E003",
   INVALID_PROFILE_JSON |-> "E004",
   INVALID_BPOD_JSON |-> "E005",
   MISSING_BPOD_NAME |-> "E006",
   DUPLICATE_BPOD_NAME |-> "E007",
   INVALID_FILES_BLOCK |-> "E008",
   PROFILE_NAME_REQUIRED |-> "E101",
   PROFILE_DESCRIPTION_TOO_LONG |-> "E102",
   INVALID_LOGO_URL |-> "E103",
   INVALID_WEBSITE_URL |-> "E104",
   BPOD_NAME_REQUIRED |-> "E201",
   BPOD_ACCEPTS_EMPTY |-> "E202",
   BPOD_ACCEPTS_INVALID_FORMAT |-> "E203",
   BPOD_SUBMIT_LABEL_REQUIRED |-> "E204",
   BPOD_SUBMIT_ACTION_REQUIRED |-> "E205",
   BPOD_API_URL_INVALID |-> "E206",
   BPOD_API_METHOD_INVALID |-> "E207",
   BPOD_API_BODY_TEMPLATE_MISSING_WEBHOOK |-> "E208",
   BPOD_INPUT_OPTIONS_REQUIRED |-> "E209",
   FILE_NOT_FOUND |-> "E301",
   FILE_TOO_LARGE |-> "E302",
   TOO_MANY_FILES |-> "E303",
   FILE_READ_ERROR |-> "E304",
   INVALID_FILE_PATH |-> "E305",
   TIMEOUT_ERROR |-> "E401",
   MEMORY_ERROR |-> "E402",
   UNKNOWN_ERROR |-> "E499"]

\* enum WarningCode
WarningCode ==
  [DEPRECATED_SYNTAX |-> "W001",
   UNUSED_INPUT |-> "W002",
   MISSING_DESCRIPTION |-> "W003",
   PROFILE_MISSING_LOGO |-> "W101",
   PROFILE_MISSING_WEBSITE |-> "W102",
   BPOD_MISSING_DESCRIPTION |-> "W201",
   BPOD_MISSING_TAGS |-> "W202",
   API_MISSING_HEADERS |-> "W203",
   API_MISSING_TIMEOUT |-> "W204"]

\* the code of the merger's circular-dependency warning
W_CIRCULAR == "W004"

\* mapZodErrorToCode: zod issue code -> taxonomy code
mapZodErrorToCode(zodCode) ==
  CASE zodCode = "invalid_string" -> "E102"
    [] zodCode = "invalid_url" -> "E103"
    [] zodCode = "too_big" -> "E102"
    [] zodCode = "too_small" -> "E201"
    [] zodCode = "invalid_enum_value" -> "E207"
    [] zodCode = "invalid_regex" -> "E203"
    [] zodCode = "invalid_type" -> "E001"
    [] zodCode = "missing" -> "E201"
    [] zodCode = "custom" -> "E001"
    [] OTHER -> "E001"

\* --------------------------------------------------------- zod (library)
\* A zod parse yields a status and the issues raised.  An object schema is
\* "aborted" when a member is aborted (wrong type, unknown enum value) and
\* "dirty" when a member only fails a check; .refine() callbacks run unless
\* the inner parse was aborted.
Valid == [st |-> "valid", issues |-> <<>>]
Dirty(zod, path, msg) == [st |-> "dirty", issues |-> <<[zod |-> zod, path |-> path, msg |-> msg]>>]
Aborted(zod, path, msg) == [st |-> "aborted", issues |-> <<[zod |-> zod, path |-> path, msg |-> msg]>>]

MergeStatus(a, b) ==
  IF a = "aborted" \/ b = "aborted" THEN "aborted"
  ELSE IF a = "dirty" \/ b = "dirty" THEN "dirty" ELSE "valid"

RECURSIVE MergeObject(_)
MergeObject(members) ==
  IF members = <<>> THEN Valid
  ELSE LET rest == MergeObject(Tail(members))
       IN [st |-> MergeStatus(Head(members).st, rest.st),
           issues |-> Head(members).issues \o rest.issues]

Refine(inner, ok, path, msg) ==
  IF inner.st = "aborted" \/ ok THEN inner
  ELSE [st |-> "dirty",
        issues |-> inner.issues \o <<[zod |-> "custom", path |-> path, msg |-> msg]>>]

\* ------------------------------------------------------- strings of JSON
\* URL-valued strings: a well-formed https URL, a well-formed http URL, or
\* text that is no URL at all
Urls == {"https://ok", "http://ok", "not-a-url"}
IsUrl(u) == u \in {"https://ok", "http://ok"}
IsHttps(u) == u = "https://ok"

\* accepts entries and the regex /^[a-z0-9]+$/
Exts == {"txt", "md", "TXT", "txt.md"}
IsLowerAlnum(e) == e \in {"txt", "md"}

\* a bodyTemplate value is the set of placeholders its text contains
WEBHOOK == "webhook_url"
Params == {"f", "g"}
Placeholders == {WEBHOOK} \cup Params

\* ------------------------------------------------------------- validator
\* z.string().min(1, ...) on a key that holds a string
StringMin1(v, path, msg) == IF v = "" THEN Dirty("too_small", path, msg) ELSE Valid

\* a required key of the given schema: an absent key is an invalid_type
Required(o, path, Schema(_)) ==
  IF IsSome(o) THEN Schema(Get(o)) ELSE Aborted("invalid_type", path, "Required")

Optional(o, Schema(_)) == IF IsSome(o) THEN Schema(Get(o)) ELSE Valid

\* z.string().url(m1).startsWith("https://", m2): both checks are evaluated
HttpsUrl(u, path, m1, m2) ==
  MergeObject(<<IF IsUrl(u) THEN Valid ELSE Dirty("invalid_string", path, m1),
                IF IsHttps(u) THEN Valid ELSE Dirty("invalid_string", path, m2)>>)

\* z.enum([...])
Enum(v, allowed, path) ==
  IF v \in allowed THEN Valid ELSE Aborted("invalid_enum_value", path, "Invalid enum value")

\* profileSchema
profileSchema(p) ==
  MergeObject(<<
    Required(p.name, <<"name">>,
             LAMBDA v : StringMin1(v, <<"name">>, "Profile name is required")),
    Optional(p.logo,
             LAMBDA v : HttpsUrl(v, <<"logo">>, "Logo must be a valid URL", "Logo URL must use HTTPS")),
    Required(p.description, <<"description">>,
             LAMBDA v : IF v = "long"
                        THEN Dirty("too_big", <<"description">>, "Description cannot exceed 500 characters")
                        ELSE Valid),
    Optional(p.website,
             LAMBDA v : HttpsUrl(v, <<"website">>, "Website must be a valid URL", "Website must use HTTPS"))
  >>)

InputTypes == {"text", "textarea", "number", "checkbox", "radio", "dropdown", "toggle", "hidden"}

\* inputSchema, had it lacked the refinement on options
inputSchema_noRefine(inp, path) ==
  MergeObject(<<Enum(inp.type, InputTypes, path \o <<"type">>)>>)

\* inputSchema with its first refinement (options of radio/dropdown)
inputSchema(inp, path) ==
  Refine(MergeObject(<<Enum(inp.type, InputTypes, path \o <<"type">>)>>),
         ~(inp.type \in {"radio", "dropdown"} /\ (~IsSome(inp.options) \/ Get(inp.options) = <<>>)),
         path, "Radio and dropdown inputs require options")

\* z.array(inputSchema), elements i..
RECURSIVE inputsSchema(_, _)
inputsSchema(arr, i) ==
  IF i > Len(arr) THEN Valid
  ELSE MergeObject(<<inputSchema(arr[i], <<"inputs", ToString(i - 1)>>), inputsSchema(arr, i + 1)>>)

\* z.array(z.string().regex(/^[a-z0-9]+$/)), elements i..
RECURSIVE acceptsItems(_, _)
acceptsItems(arr, i) ==
  IF i > Len(arr) THEN Valid
  ELSE MergeObject(<<IF IsLowerAlnum(arr[i]) THEN Valid
                     ELSE Dirty("invalid_string", <<"accepts", ToString(i - 1)>>,
                                "File extension must be lowercase without dot"),
                     acceptsItems(arr, i + 1)>>)

\* Object.values(template).some(value => value.includes("{" + p + "}"))
TemplateHas(template, p) == \E i \in 1..Len(template) : p \in template[i]

\* apiSchema: the object, then the {webhook_url} refinement, then the GET one
apiObject(api) ==
  MergeObject(<<
    Required(api.url, <<"api", "url">>,
             LAMBDA v : HttpsUrl(v, <<"api", "url">>, "API URL must be a valid URL",
                                 "API URL must start with https://")),
    Required(api.method, <<"api", "method">>,
             LAMBDA v : Enum(v, {"GET", "POST"}, <<"api", "method">>)),
    Required(api.fileParams, <<"api", "fileParams">>,
             LAMBDA v : IF Len(v) < 1
                        THEN Dirty("too_small", <<"api", "fileParams">>,
                                   "At least one file parameter is required")
                        ELSE Valid),
    Required(api.bodyTemplate, <<"api", "bodyTemplate">>, LAMBDA v : Valid),
    Required(api.responseType, <<"api", "responseType">>,
             LAMBDA v : Enum(v, {"file", "json"}, <<"api", "responseType">>))
  >>)

MsgWebhook == "Body template must include {webhook_url} parameter"
MsgGet == "GET requests cannot have a body template"

\* the {webhook_url} refinement, had the schema lacked it
webhookRefine_absent(api) == TRUE

webhookRefine(api) == TemplateHas(Get(api.bodyTemplate), WEBHOOK)

\* the GET refinement, had it tolerated a body template of one key
getRefine_moreThanOne(api) == ~(Get(api.method) = "GET" /\ Len(Get(api.bodyTemplate)) > 1)

getRefine(api) == ~(Get(api.method) = "GET" /\ Len(Get(api.bodyTemplate)) > 0)

apiSchema(api) ==
  LET obj == apiObject(api)
      r1 == IF obj.st = "aborted" THEN obj
            ELSE Refine(obj, webhookRefine(api), <<"api">>, MsgWebhook)
  IN IF r1.st = "aborted" THEN r1 ELSE Refine(r1, getRefine(api), <<"api">>, MsgGet)

submitSchema(sub) ==
  MergeObject(<<StringMin1(sub.label, <<"submit", "label">>, "Submit label is required"),
                StringMin1(sub.action, <<"submit", "action">>, "Submit action is required")>>)

acceptsSchema(acc) ==
  MergeObject(<<
    IF acc = <<>>
    THEN Dirty("too_small", <<"accepts">>, "At least one file type must be accepted")
    ELSE Valid,
    acceptsItems(acc, 1)>>)

\* bPodSchema
bPodSchema(bPod) ==
  MergeObject(<<
    StringMin1(bPod.name, <<"name">>, "BPod name is required"),
    Required(bPod.accepts, <<"accepts">>, acceptsSchema),
    Optional(bPod.inputs, LAMBDA v : inputsSchema(v, 1)),
    Required(bPod.submit, <<"submit">>, submitSchema),
    Required(bPod.api, <<"api">>, apiSchema)
  >>)

InPath(path, key) == \E i \in 1..Len(path) : path[i] = key

\* the issue mapping of validateProfile's failure branch
profileIssue(issue) ==
  [code |-> IF InPath(issue.path, "name") /\ issue.zod \in {"missing", "invalid_type"}
            THEN ErrorCode.PROFILE_NAME_REQUIRED
            ELSE IF InPath(issue.path, "logo") /\ issue.zod = "invalid_string"
            THEN ErrorCode.INVALID_LOGO_URL
            ELSE IF InPath(issue.path, "website") /\ issue.zod = "invalid_string"
            THEN ErrorCode.INVALID_WEBSITE_URL
            ELSE mapZodErrorToCode(issue.zod),
   msg |-> issue.msg, path |-> issue.path]

\* the issue mapping of validateBPod's failure branch
bPodIssue(issue) ==
  [code |-> IF InPath(issue.path, "name") /\ issue.zod \in {"missing", "invalid_type"}
            THEN ErrorCode.BPOD_NAME_REQUIRED
            ELSE IF InPath(issue.path, "accepts") /\ issue.zod = "too_small"
            THEN ErrorCode.BPOD_ACCEPTS_EMPTY
            ELSE IF InPath(issue.path, "api") /\ InPath(issue.path, "url")
                    /\ issue.zod = "invalid_string"
            THEN ErrorCode.BPOD_API_URL_INVALID
            ELSE mapZodErrorToCode(issue.zod),
   msg |-> issue.msg, path |-> issue.path]

MapSeq(s, F(_)) == [i \in 1..Len(s) |-> F(s[i])]

Warn(code, path) == [code |-> code, msg |-> "warning", path |-> path]

DEFAULT_LOGO == "https://cdn.breeth.com/default-logo.png"

\* validateProfile, had it returned a successful profile without re-checking
\* the advisory conditions
validateProfile_silent(p) ==
  LET parsed == profileSchema(p)
  IN IF parsed.st = "valid"
     THEN [success |-> TRUE,
           data |-> [name |-> Get(p.name), description |-> Get(p.description),
                     logo |-> IF IsSome(p.logo) THEN Get(p.logo) ELSE DEFAULT_LOGO,
                     website |-> p.website],
           issues |-> <<>>]
     ELSE [success |-> FALSE, data |-> <<>>, issues |-> MapSeq(parsed.issues, profileIssue)]

\* validateProfile: {success, data, issues}
validateProfile(p) ==
  LET parsed == profileSchema(p)
      logo == IF IsSome(p.logo) THEN Get(p.logo) ELSE DEFAULT_LOGO
  IN IF parsed.st = "valid"
     THEN [success |-> TRUE,
           data |-> [name |-> Get(p.name), description |-> Get(p.description),
                     logo |-> logo, website |-> p.website],
           issues |-> (IF logo = DEFAULT_LOGO
                       THEN <<Warn(WarningCode.PROFILE_MISSING_LOGO, <<"logo">>)>> ELSE <<>>)
                      \o (IF ~IsSome(p.website)
                          THEN <<Warn(WarningCode.PROFILE_MISSING_WEBSITE, <<"website">>)>> ELSE <<>>)]
     ELSE [success |-> FALSE, data |-> <<>>, issues |-> MapSeq(parsed.issues, profileIssue)]

\* validateBPod: {success, issues}
validateBPod(bPod) ==
  LET parsed == bPodSchema(bPod)
  IN IF parsed.st = "valid"
     THEN [success |-> TRUE,
           issues |-> (IF ~bPod.description
                       THEN <<Warn(WarningCode.BPOD_MISSING_DESCRIPTION, <<"description">>)>> ELSE <<>>)
                      \o (IF ~bPod.tags
                          THEN <<Warn(WarningCode.BPOD_MISSING_TAGS, <<"tags">>)>> ELSE <<>>)
                      \o (IF ~Get(bPod.api).headers
                          THEN <<Warn(WarningCode.API_MISSING_HEADERS, <<"api", "headers">>)>> ELSE <<>>)
                      \o (IF ~Get(bPod.api).timeout
                          THEN <<Warn(WarningCode.API_MISSING_TIMEOUT, <<"api", "timeout">>)>> ELSE <<>>)]
     ELSE [success |-> FALSE, issues |-> MapSeq(parsed.issues, bPodIssue)]

\* validateFileExtensions
validateFileExtensions(extensions) ==
  IF \E i \in 1..Len(extensions) : ~IsLowerAlnum(extensions[i])
  THEN [success |-> FALSE,
        issues |-> <<[code |-> ErrorCode.BPOD_ACCEPTS_INVALID_FORMAT, msg |-> "Invalid file extensions",
                      path |-> <<"accepts">>]>>]
  ELSE [success |-> TRUE, issues |-> <<>>]

\* validateBodyTemplate
validateBodyTemplate(template, fileParams) ==
  LET requiredParams == <<WEBHOOK>> \o fileParams
  IN IF \E i \in 1..Len(requiredParams) : ~TemplateHas(template, requiredParams[i])
     THEN [success |-> FALSE,
           issues |-> <<[code |-> ErrorCode.BPOD_API_BODY_TEMPLATE_MISSING_WEBHOOK,
                         msg |-> "Missing required parameters in body template",
                         path |-> <<"api", "bodyTemplate">>]>>]
     ELSE [success |-> TRUE, issues |-> <<>>]

\* ------------------------------------------------------------ diagnostics
\* createParseContext / updateParseContext; defined = FALSE stands for a
\* context built around an undefined content
createParseContext(filePath, defined, lineOffset) ==
  [filePath |-> filePath, defined |-> defined, lineOffset |-> lineOffset,
   currentLine |-> 1, currentColumn |-> 1]

updateParseContext(context, newLine, newColumn) ==
  [context EXCEPT !.currentLine = newLine, !.currentColumn = newColumn]

\* extractContext calls content.split: a TypeError on an undefined content
extractContextThrows(context) == ~context.defined

calculateLineColumn(context) ==
  [line |-> context.currentLine + context.lineOffset, column |-> context.currentColumn]

createError(code, msg, context) ==
  [code |-> code, msg |-> msg, severity |-> "error", file |-> context.filePath,
   line |-> calculateLineColumn(context).line, column |-> calculateLineColumn(context).column]

createWarning(code, msg, context) ==
  [code |-> code, msg |-> msg, severity |-> "warning", file |-> context.filePath,
   line |-> calculateLineColumn(context).line, column |-> calculateLineColumn(context).column]

\* ----------------------------------------------------------------- blocks
\* A trimmed block of text:
\*   kw     the word the block starts with
\*   sep    what follows it: "colon" (kw:), "spaced" (kw :), "none"
\*   lit    version blocks: the text after the colon, as tokens
\*          ("q" a double quote, "sp" white space, else plain text);
\*          the string "1.0.0" is the token sequence <<"1.0.0">>
\*   name   b-pod blocks: the quoted name after the colon, if any
\*   parse  what JSON.parse makes of the body: "ok", "bad" (throws),
\*          "missing" (the block has no {...} body)
\*   pj, sj the parsed profile / service object
NoProfileJson == [name |-> None, logo |-> None, description |-> None, website |-> None]
NoServiceJson == [name |-> None, accepts |-> None, inputs |-> None, submit |-> None,
                  api |-> None, description |-> FALSE, tags |-> FALSE]

Block(kw, sep, lit, name, parse, pj, sj) ==
  [kw |-> kw, sep |-> sep, lit |-> lit, name |-> name, parse |-> parse, pj |-> pj, sj |-> sj]

\* block.includes(":"): the colon after the keyword or one inside a body
includesColon(block) == block.sep # "none" \/ block.parse # "missing"

\* block.startsWith(kw + ":")
startsWithKw(block, kw) == block.kw = kw /\ block.sep = "colon"

\* .replace(/"/g, "")
RECURSIVE stripQuotes(_)
stripQuotes(lit) ==
  IF lit = <<>> THEN <<>>
  ELSE IF Head(lit) = "q" THEN stripQuotes(Tail(lit))
       ELSE <<Head(lit)>> \o stripQuotes(Tail(lit))

\* String.prototype.trim on a token sequence
RECURSIVE trimLeft(_)
trimLeft(lit) ==
  IF lit # <<>> /\ Head(lit) = "sp" THEN trimLeft(Tail(lit)) ELSE lit

RECURSIVE trimRight(_)
trimRight(lit) ==
  IF lit # <<>> /\ lit[Len(lit)] = "sp" THEN trimRight(SubSeq(lit, 1, Len(lit) - 1)) ELSE lit

trim(lit) == trimRight(trimLeft(lit))

\* the versionValue of the version branch
versionValue(block) == trim(stripQuotes(trimLeft(block.lit)))

\* nameMatch[1].trim() of the b-pod branch; " " is a name of blanks only
trimName(n) == IF n = " " THEN "" ELSE n

\* const bPod = { name, ...json }: a name key of the body overrides name
mergeName(name, json) ==
  [json EXCEPT !.name = IF IsSome(json.name) THEN Get(json.name) ELSE name]

\* ------------------------------------------- parseMergedContentWithSources
\* the locals of parseMergedContentWithSources before the first block
InitParse ==
  [errors |-> <<>>, warnings |-> <<>>, bPods |-> <<>>, bPodFileMap |-> <<>>,
   profile |-> None, version |-> <<"1.0.0">>]

issueErrors(issues, context) == MapSeq(issues, LAMBDA i : createError(i.code, i.msg, context))
issueWarnings(issues, context) == MapSeq(issues, LAMBDA i : createWarning(i.code, i.msg, context))

\* bPods.some((bp) => bp.name === name)
nameTaken(bPods, name) == \E i \in 1..Len(bPods) : bPods[i].name = name

\* bPodFileMap[name] = currentFile
setFile(map, name, file) ==
  IF \E i \in 1..Len(map) : map[i].name = name
  THEN [i \in 1..Len(map) |-> IF map[i].name = name THEN [name |-> name, file |-> file] ELSE map[i]]
  ELSE Append(map, [name |-> name, file |-> file])

\* the version branch, had it reported only the first rejected literal
versionBranch_firstOnly(ps, block, context) ==
  IF versionValue(block) # <<"1.0.0">>
  THEN IF \E i \in 1..Len(ps.errors) : ps.errors[i].code = ErrorCode.INVALID_VERSION
       THEN ps
       ELSE [ps EXCEPT !.errors = Append(@, createError(ErrorCode.INVALID_VERSION, "Invalid version", context))]
  ELSE [ps EXCEPT !.version = versionValue(block)]

\* the version branch, had it stored the literal before checking it
versionBranch_storeFirst(ps, block, context) ==
  IF versionValue(block) # <<"1.0.0">>
  THEN [ps EXCEPT !.version = versionValue(block),
                  !.errors = Append(@, createError(ErrorCode.INVALID_VERSION, "Invalid version", context))]
  ELSE [ps EXCEPT !.version = versionValue(block)]

versionBranch(ps, block, context) ==
  IF versionValue(block) # <<"1.0.0">>
  THEN [ps EXCEPT !.errors = Append(@, createError(ErrorCode.INVALID_VERSION, "Invalid version", context))]
  ELSE [ps EXCEPT !.version = versionValue(block)]

\* the profile branch, had a rejected profile block cleared the profile
profileBranch_clearing(ps, block, context) ==
  IF block.parse # "ok"
  THEN [ps EXCEPT !.profile = None,
                  !.errors = Append(@, createError(ErrorCode.INVALID_PROFILE_JSON, "Invalid profile JSON", context))]
  ELSE LET result == validateProfile(block.pj)
       IN IF result.success
          THEN [ps EXCEPT !.profile = Some(result.data),
                          !.warnings = @ \o issueWarnings(result.issues, context)]
          ELSE [ps EXCEPT !.profile = None,
                          !.errors = @ \o issueErrors(result.issues, context)]

profileBranch(ps, block, context) ==
  IF block.parse # "ok"
  THEN [ps EXCEPT !.errors = Append(@, createError(ErrorCode.INVALID_PROFILE_JSON, "Invalid profile JSON", context))]
  ELSE LET result == validateProfile(block.pj)
       IN IF result.success
          THEN [ps EXCEPT !.profile = Some(result.data),
                          !.warnings = @ \o issueWarnings(result.issues, context)]
          ELSE [ps EXCEPT !.errors = @ \o issueErrors(result.issues, context)]

\* the b-pod branch once the name is known to be new
bPodBody(ps, block, name, context, currentFile) ==
  IF block.parse = "missing"
  THEN [ps EXCEPT !.errors = Append(@, createError(ErrorCode.INVALID_BPOD_JSON, "BPod body missing", context))]
  ELSE IF block.parse = "bad"
  THEN [ps EXCEPT !.errors = Append(@, createError(ErrorCode.INVALID_BPOD_JSON, "Invalid b-pod JSON", context))]
  ELSE LET bPod == mergeName(name, block.sj)
           result == validateBPod(bPod)
       IN IF ~result.success
          THEN [ps EXCEPT !.errors = @ \o issueErrors(result.issues, context)]
          ELSE LET fileExtResult == validateFileExtensions(Get(bPod.accepts))
                   bodyTemplateResult ==
                     validateBodyTemplate(Get(Get(bPod.api).bodyTemplate), Get(Get(bPod.api).fileParams))
               IN IF ~fileExtResult.success
                  THEN [ps EXCEPT !.errors = @ \o issueErrors(fileExtResult.issues, context)]
                  ELSE IF ~bodyTemplateResult.success
                  THEN [ps EXCEPT !.errors = @ \o issueErrors(bodyTemplateResult.issues, context)]
                  ELSE [ps EXCEPT !.bPods = Append(@, bPod),
                                  !.bPodFileMap = setFile(@, name, currentFile),
                                  !.warnings = @ \o issueWarnings(result.issues, context)]

bPodBranch(ps, block, context, currentFile) ==
  IF ~IsSome(block.name) \/ trimName(Get(block.name)) = ""
  THEN [ps EXCEPT !.errors = Append(@, createError(ErrorCode.MISSING_BPOD_NAME, "BPod name is required", context))]
  ELSE LET name == trimName(Get(block.name))
       IN IF nameTaken(ps.bPods, name)
          THEN [ps EXCEPT !.errors =
                  Append(@, createError(ErrorCode.DUPLICATE_BPOD_NAME, "Duplicate b-pod name", context))]
          ELSE bPodBody(ps, block, name, context, currentFile)

\* one iteration, had the parser stopped taking blocks after the first error
parseBlock_stopAtError(ps, block, ordinal, currentFile, entryFile, lineOffset) ==
  LET blockContext == updateParseContext(createParseContext(currentFile, TRUE, lineOffset), ordinal, 1)
  IN IF ps.errors # <<>>
     THEN ps
     ELSE IF ~includesColon(block)
     THEN [ps EXCEPT !.errors =
             Append(@, createError(ErrorCode.MISSING_COLON, "Missing colon in declaration", blockContext))]
     ELSE IF startsWithKw(block, "version") /\ currentFile = entryFile
     THEN versionBranch(ps, block, blockContext)
     ELSE IF startsWithKw(block, "profile") /\ currentFile = entryFile
     THEN profileBranch(ps, block, blockContext)
     ELSE IF startsWithKw(block, "b-pod")
     THEN bPodBranch(ps, block, blockContext, currentFile)
     ELSE ps

\* one iteration, had the branch chain ended in an error for a block that
\* starts with none of the keywords
parseBlock_strict(ps, block, ordinal, currentFile, entryFile, lineOffset) ==
  LET blockContext == updateParseContext(createParseContext(currentFile, TRUE, lineOffset), ordinal, 1)
  IN IF ~includesColon(block)
     THEN [ps EXCEPT !.errors =
             Append(@, createError(ErrorCode.MISSING_COLON, "Missing colon in declaration", blockContext))]
     ELSE IF startsWithKw(block, "version") /\ currentFile = entryFile
     THEN versionBranch(ps, block, blockContext)
     ELSE IF startsWithKw(block, "profile") /\ currentFile = entryFile
     THEN profileBranch(ps, block, blockContext)
     ELSE IF startsWithKw(block, "b-pod")
     THEN bPodBranch(ps, block, blockContext, currentFile)
     ELSE [ps EXCEPT !.errors =
             Append(@, createError(ErrorCode.INVALID_SYNTAX, "Unknown declaration", blockContext))]

\* one iteration of blocks.forEach: ordinal = blockIndex + 1
parseBlock(ps, block, ordinal, currentFile, entryFile, lineOffset) ==
  LET blockContext == updateParseContext(createParseContext(currentFile, TRUE, lineOffset), ordinal, 1)
  IN IF ~includesColon(block)
     THEN [ps EXCEPT !.errors =
             Append(@, createError(ErrorCode.MISSING_COLON, "Missing colon in declaration", blockContext))]
     ELSE IF startsWithKw(block, "version") /\ currentFile = entryFile
     THEN versionBranch(ps, block, blockContext)
     ELSE IF startsWithKw(block, "profile") /\ currentFile = entryFile
     THEN profileBranch(ps, block, blockContext)
     ELSE IF startsWithKw(block, "b-pod")
     THEN bPodBranch(ps, block, blockContext, currentFile)
     ELSE IF (startsWithKw(block, "version") \/ startsWithKw(block, "profile"))
             /\ currentFile # entryFile
     THEN [ps EXCEPT !.errors =
             Append(@, createError(ErrorCode.INVALID_SYNTAX, "declarations are only allowed in index.bui",
                                   blockContext))]
     ELSE ps

\* errors.filter(e => e.severity === 'error').length === 0
noErrors(errors) == \A i \in 1..Len(errors) : errors[i].severity # "error"

\* the CompileResult, had warnings counted against success
compileResult_strict(ps, includedFiles, withMetadata) ==
  [ast |-> [version |-> ps.version, profile |-> ps.profile, bPods |-> ps.bPods],
   errors |-> ps.errors,
   warnings |-> ps.warnings,
   success |-> noErrors(ps.errors) /\ ps.warnings = <<>>,
   metadata |-> IF withMetadata
                THEN Some([includedFiles |-> includedFiles, bPodFileMap |-> ps.bPodFileMap])
                ELSE None]

\* the CompileResult built at the end of parseMergedContentWithSources
compileResult(ps, includedFiles, withMetadata) ==
  [ast |-> [version |-> ps.version, profile |-> ps.profile, bPods |-> ps.bPods],
   errors |-> ps.errors,
   warnings |-> ps.warnings,
   success |-> noErrors(ps.errors),
   metadata |-> IF withMetadata
                THEN Some([includedFiles |-> includedFiles, bPodFileMap |-> ps.bPodFileMap])
                ELSE None]

\* the result of every early return of parseBUI
shortCircuit(errors, warnings) ==
  [ast |-> [version |-> <<"1.0.0">>, profile |-> None, bPods |-> <<>>],
   errors |-> errors, warnings |-> warnings, success |-> FALSE, metadata |-> None]

\* ------------------------------------------------------------------ paths
\* A path segment is a sequence of characters, a path a sequence of
\* segments; relative paths of a files: block carry abs = FALSE.
Seg ==
  [W |-> <<"w">>,
   P |-> <<"p">>,
   P2 |-> <<"p", "2">>,
   Q |-> <<"q">>,
   Dot |-> <<".">>,
   DotDot |-> <<".", ".">>,
   IndexBui |-> <<"i", "n", "d", "e", "x", ".", "b", "u", "i">>,
   MainBui |-> <<"m", "a", "i", "n", ".", "b", "u", "i">>,
   ABui |-> <<"a", ".", "b", "u", "i">>,
   XBui |-> <<"x", ".", "b", "u", "i">>,
   YBui |-> <<"y", ".", "b", "u", "i">>,
   NBui |-> <<"n", ".", "b", "u", "i">>,
   ATxt |-> <<"a", ".", "t", "x", "t">>,
   BBui |-> <<"b", ".", "b", "u", "i">>,
   UBui |-> <<"u", ".", "b", "u", "i">>]

Path(abs, segs) == [abs |-> abs, segs |-> segs]

\* process.cwd()
Cwd == <<Seg.W, Seg.P>>

\* "." and ".." are folded away
RECURSIVE normalize(_, _)
normalize(acc, segs) ==
  IF segs = <<>> THEN acc
  ELSE IF Head(segs) = Seg.Dot THEN normalize(acc, Tail(segs))
  ELSE IF Head(segs) = Seg.DotDot
  THEN normalize(IF acc = <<>> THEN acc ELSE SubSeq(acc, 1, Len(acc) - 1), Tail(segs))
  ELSE normalize(Append(acc, Head(segs)), Tail(segs))

\* path.resolve(base, filePath); path.resolve(p) is resolve(Path(FALSE, <<>>), p)
resolve(base, filePath) ==
  Path(TRUE,
       IF filePath.abs THEN normalize(<<>>, filePath.segs)
       ELSE IF base.abs THEN normalize(<<>>, base.segs \o filePath.segs)
       ELSE normalize(<<>>, Cwd \o base.segs \o filePath.segs))

resolve1(filePath) == resolve(Path(FALSE, <<>>), filePath)

\* the string of an absolute path: "/" before every segment
RECURSIVE segString(_)
segString(segs) ==
  IF segs = <<>> THEN <<>> ELSE <<"/">> \o Head(segs) \o segString(Tail(segs))

pathString(p) == segString(p.segs)

\* path.dirname / path.basename
dirname(p) ==
  IF Len(p.segs) <= 1 /\ ~p.abs THEN Path(FALSE, <<Seg.Dot>>)
  ELSE Path(p.abs, SubSeq(p.segs, 1, Len(p.segs) - 1))

basename(p) == p.segs[Len(p.segs)]

\* path.extname: from the last "." of the base name, unless the name
\* starts with it or has none
RECURSIVE lastDot(_, _)
lastDot(name, i) ==
  IF i = 0 THEN 0 ELSE IF name[i] = "." THEN i ELSE lastDot(name, i - 1)

extname(filePath) ==
  LET name == IF filePath.segs = <<>> THEN <<>> ELSE filePath.segs[Len(filePath.segs)]
      d == lastDot(name, Len(name))
  IN IF d <= 1 THEN <<>> ELSE SubSeq(name, d, Len(name))

lowerChar(c) ==
  CASE c = "B" -> "b" [] c = "U" -> "u" [] c = "I" -> "i" [] OTHER -> c

toLowerCase(str) == [i \in 1..Len(str) |-> lowerChar(str[i])]

\* validateFilePath (parser.ts): "" when valid, else the error text
validateFilePath(filePath, baseDir) ==
  LET resolved == pathString(resolve(baseDir, filePath))
      baseResolved == pathString(resolve1(baseDir))
  IN IF ~StartsWith(resolved, baseResolved) THEN "Path traversal detected"
     ELSE IF toLowerCase(extname(filePath)) # <<".", "b", "u", "i">>
     THEN "Only .bui files are supported"
     ELSE ""

\* ----------------------------------------------------------------- merger
DefaultMaxFileSize == 1048576
DefaultMaxFiles == 100

\* options.maxFileSize || 1024 * 1024 and options.maxFiles || 100
orDefault(v, d) == IF v = 0 THEN d ELSE v

\* fs.existsSync / fs.statSync(..).size / the blocks of a file's text
existsSync(disk, p) == p \in DOMAIN disk

\* fs.readFileSync returns the text (it throws on a file it cannot read)
readFileSync(disk, p) == disk[p].readable

\* removeFilesBlock / the files block filter of the block lists
isFilesBlock(block) == startsWithKw(block, "files")

\* extractBPodsFromContent: only the blocks that start with b-pod:
RECURSIVE extractBPodsFromContent(_)
extractBPodsFromContent(blocks) ==
  IF blocks = <<>> THEN <<>>
  ELSE IF startsWithKw(Head(blocks), "b-pod")
          /\ ~startsWithKw(Head(blocks), "version")
          /\ ~startsWithKw(Head(blocks), "profile")
          /\ ~startsWithKw(Head(blocks), "files")
  THEN <<Head(blocks)>> \o extractBPodsFromContent(Tail(blocks))
  ELSE extractBPodsFromContent(Tail(blocks))

circularWarning(resolved) ==
  [code |-> W_CIRCULAR, msg |-> "Circular dependency detected", severity |-> "warning",
   file |-> resolved, line |-> 0, column |-> 0]

InSeq(s, x) == \E i \in 1..Len(s) : s[i] = x

\* the loop body, had it counted the size of a file before testing it
mergeFile_countSkipped(acc, filePath, entryAbs, maxFileSize, disk) ==
  LET resolved == resolve(dirname(entryAbs), filePath)
  IN IF InSeq(acc.includedFiles, resolved) \/ ~existsSync(disk, resolved)
     THEN acc
     ELSE IF disk[resolved].size > maxFileSize \/ ~readFileSync(disk, resolved)
     THEN [acc EXCEPT !.totalSize = @ + disk[resolved].size,
                      !.errors = Append(@, createError(ErrorCode.FILE_TOO_LARGE, "File too large",
                                                       createParseContext(filePath, TRUE, 0)))]
     ELSE [acc EXCEPT !.fileSizes = Append(@, [file |-> resolved, size |-> disk[resolved].size]),
                      !.totalSize = @ + disk[resolved].size,
                      !.extracted = @ \o extractBPodsFromContent(disk[resolved].blocks),
                      !.includedFiles = Append(@, resolved)]

\* one iteration of the loop over fileList
mergeFile_prepend(acc, filePath, entryAbs, maxFileSize, disk) ==
  LET resolved == resolve(dirname(entryAbs), filePath)
  IN IF InSeq(acc.includedFiles, resolved) \/ ~existsSync(disk, resolved)
        \/ disk[resolved].size > maxFileSize \/ ~readFileSync(disk, resolved)
     THEN acc
     ELSE [acc EXCEPT !.extracted = extractBPodsFromContent(disk[resolved].blocks) \o @,
                      !.includedFiles = Append(@, resolved)]

mergeFile(acc, filePath, entryAbs, maxFileSize, disk) ==
  LET resolved == resolve(dirname(entryAbs), filePath)
  IN IF InSeq(acc.includedFiles, resolved)
     THEN [acc EXCEPT !.warnings = Append(@, circularWarning(resolved))]
     ELSE IF ~existsSync(disk, resolved)
     THEN [acc EXCEPT !.errors =
             Append(@, createError(ErrorCode.FILE_NOT_FOUND, "Included file not found",
                                   createParseContext(filePath, TRUE, 0)))]
     ELSE IF disk[resolved].size > maxFileSize
     THEN [acc EXCEPT !.errors =
             Append(@, createError(ErrorCode.FILE_TOO_LARGE, "File too large",
                                   createParseContext(filePath, TRUE, 0)))]
     ELSE IF ~readFileSync(disk, resolved)
     THEN [acc EXCEPT !.errors =
             Append(@, createError(ErrorCode.FILE_READ_ERROR, "Failed to read file",
                                   createParseContext(filePath, TRUE, 0)))]
     ELSE [acc EXCEPT !.fileSizes = Append(@, [file |-> resolved, size |-> disk[resolved].size]),
                      !.totalSize = @ + disk[resolved].size,
                      !.extracted = @ \o extractBPodsFromContent(disk[resolved].blocks),
                      !.includedFiles = Append(@, resolved)]

RECURSIVE mergeLoop(_, _, _, _, _)
mergeLoop(acc, fileList, entryAbs, maxFileSize, disk) ==
  IF fileList = <<>> THEN acc
  ELSE mergeLoop(mergeFile(acc, Head(fileList), entryAbs, maxFileSize, disk),
                 Tail(fileList), entryAbs, maxFileSize, disk)

\* mergeBuiFiles.  mergedContent is the entry's blocks without its files
\* blocks, followed by the blocks in extracted.
mergeBuiFiles(entryPath, fileList, options, disk) ==
  LET entryAbs == resolve1(entryPath)
      maxFileSize == orDefault(options.maxFileSize, DefaultMaxFileSize)
      maxFiles == orDefault(options.maxFiles, DefaultMaxFiles)
      entryContext == createParseContext(entryPath, TRUE, 0)
  IN IF ~existsSync(disk, entryAbs)
     THEN [extracted |-> <<>>, includedFiles |-> <<>>,
           errors |-> <<createError(ErrorCode.FILE_NOT_FOUND, "Entry file not found", entryContext)>>,
           warnings |-> <<>>, totalSize |-> 0, fileSizes |-> <<>>]
     ELSE LET e1 == IF disk[entryAbs].size > maxFileSize
                    THEN <<createError(ErrorCode.FILE_TOO_LARGE, "Entry file too large", entryContext)>>
                    ELSE <<>>
              e2 == IF Len(fileList) > maxFiles
                    THEN <<createError(ErrorCode.TOO_MANY_FILES, "Too many files", entryContext)>>
                    ELSE <<>>
          IN IF ~readFileSync(disk, entryAbs)
             THEN [extracted |-> <<>>, includedFiles |-> <<>>,
                   errors |-> e1 \o e2 \o <<createError(ErrorCode.FILE_READ_ERROR,
                                                       "Failed to read entry file", entryContext)>>,
                   warnings |-> <<>>, totalSize |-> 0, fileSizes |-> <<>>]
             ELSE
             mergeLoop([extracted |-> <<>>, includedFiles |-> <<entryAbs>>,
                        errors |-> e1 \o e2, warnings |-> <<>>,
                        totalSize |-> disk[entryAbs].size,
                        fileSizes |-> <<[file |-> entryAbs, size |-> disk[entryAbs].size]>>],
                       fileList, entryAbs, maxFileSize, disk)

\* ----------------------------------------------------------------- inputs
ValidApi ==
  [url |-> Some("https://ok"), method |-> Some("POST"), fileParams |-> Some(<<"f">>),
   bodyTemplate |-> Some(<<{"f"}, {WEBHOOK}>>), responseType |-> Some("file"),
   headers |-> FALSE, timeout |-> FALSE]

ValidService ==
  [name |-> None, accepts |-> Some(<<"txt">>), inputs |-> None,
   submit |-> Some([label |-> "Process", action |-> "run"]), api |-> Some(ValidApi),
   description |-> FALSE, tags |-> FALSE]

WithApi(api) == [ValidService EXCEPT !.api = Some(api)]

\* service bodies of the pipeline runs
RenamedService == [ValidService EXCEPT !.name = Some("B")]
NoWebhookService == WithApi([ValidApi EXCEPT !.bodyTemplate = Some(<<{"f"}>>)])
NoParamService == WithApi([ValidApi EXCEPT !.bodyTemplate = Some(<<{WEBHOOK}>>)])

BPodBlock(sep, name, parse, sj) == Block("b-pod", sep, <<>>, name, parse, NoProfileJson, sj)
VersionBlock(sep, lit) == Block("version", sep, lit, None, "missing", NoProfileJson, NoServiceJson)
ProfileBlock(sep, parse, pj) == Block("profile", sep, <<>>, None, parse, pj, NoServiceJson)

MinimalProfile ==
  [name |-> Some("Test Profile"), logo |-> None, description |-> Some("short"), website |-> None]
FullProfile ==
  [name |-> Some("Other Profile"), logo |-> Some("https://ok"), description |-> Some("short"),
   website |-> Some("https://ok")]
NamelessProfile == [MinimalProfile EXCEPT !.name = None]

VersionBlocks ==
  {VersionBlock("colon", <<"sp", "q", "1.0.0", "q">>),
   VersionBlock("colon", <<"sp", "q", "2.0.0", "q">>),
   VersionBlock("spaced", <<"sp", "q", "2.0.0", "q">>)}

ProfileBlocks ==
  {ProfileBlock("colon", "ok", MinimalProfile),
   ProfileBlock("colon", "ok", NamelessProfile),
   ProfileBlock("colon", "bad", NoProfileJson)}

BPodBlocks ==
  {BPodBlock("colon", Some("A"), "ok", ValidService),
   BPodBlock("colon", Some("B"), "ok", ValidService),
   BPodBlock("colon", Some("A"), "ok", RenamedService),
   BPodBlock("colon", Some("A"), "ok", NoWebhookService),
   BPodBlock("colon", Some("B"), "ok", NoParamService),
   BPodBlock("colon", Some("A"), "bad", NoServiceJson),
   BPodBlock("colon", Some(" "), "ok", ValidService),
   BPodBlock("none", Some("A"), "ok", ValidService)}

\* the blocks an entry file is made of
Blocks == VersionBlocks \cup ProfileBlocks \cup BPodBlocks

\* the paths a files: block lists
FileRefs ==
  {Path(FALSE, <<Seg.ABui>>),
   Path(FALSE, <<Seg.DotDot, Seg.P2, Seg.XBui>>),
   Path(FALSE, <<Seg.DotDot, Seg.Q, Seg.YBui>>),
   Path(FALSE, <<Seg.ATxt>>),
   Path(FALSE, <<Seg.NBui>>)}

\* the first files: block of the entry file, if it has one
FilesBlocks ==
  {None, Some([parse |-> "bad", list |-> <<>>])}
  \cup {Some([parse |-> "ok", list |-> l]) : l \in SeqsUpTo(FileRefs, MaxList)}

EntryPaths ==
  {Path(FALSE, <<Seg.IndexBui>>), Path(FALSE, <<Seg.MainBui>>), Path(FALSE, <<Seg.Q, Seg.IndexBui>>)}

OptionSet ==
  [content : BOOLEAN, withMetadata : {TRUE}, maxFileSize : {0}, maxFiles : {0}]

\* the calls of parseBUI: a content is compiled under the name index.bui
Calls ==
  {c \in [entryPath : EntryPaths, options : OptionSet] :
     c.options.content => c.entryPath = Path(FALSE, <<Seg.IndexBui>>)}

\* the files on disk; the text of the entry file is read block by block
Disk ==
  LET File(size, blocks) == [size |-> size, readable |-> TRUE, blocks |-> blocks]
  IN (Path(TRUE, <<Seg.W, Seg.P, Seg.IndexBui>>) :> File(10, <<>>))
     @@ (Path(TRUE, <<Seg.W, Seg.P, Seg.MainBui>>) :> File(10, <<>>))
     @@ (Path(TRUE, <<Seg.W, Seg.P, Seg.ABui>>) :>
           File(20, <<VersionBlock("colon", <<"sp", "q", "2.0.0", "q">>),
                      BPodBlock("colon", Some("A"), "ok", ValidService)>>))
     @@ (Path(TRUE, <<Seg.W, Seg.P2, Seg.XBui>>) :>
           File(30, <<BPodBlock("colon", Some("B"), "ok", ValidService)>>))
     @@ (Path(TRUE, <<Seg.W, Seg.Q, Seg.YBui>>) :>
           File(30, <<BPodBlock("colon", Some("B"), "ok", ValidService)>>))

\* ------------------------------------------------------------------ state
VARIABLES
  pc,             \* "idle", "entry", "merged", "done"
  disk,           \* the file system
  entryPath,      \* parseBUI's first argument
  options,        \* parseBUI's second argument
  filesBlock,     \* the files: block found in the entry text, if any
  collected,      \* parseBUI's own errors and warnings arrays
  includedFiles,  \* the includedFiles handed to the block parser
  currentFile,    \* the block parser's currentFile
  lineOffset,     \* the block parser's lineOffset
  content,        \* the blocks of the (merged) content parsed so far
  pending,        \* the merged blocks of the listed files still to parse
  ordinal,        \* the number of blocks parsed so far
  ps,             \* the block parser's errors, warnings, bPods, profile, ...
  result,         \* the CompileResult returned, once there is one
  cli             \* the command line run: its command, its file, its exit code

vars == <<pc, disk, entryPath, options, filesBlock, collected, includedFiles, currentFile,
          lineOffset, content, pending, ordinal, ps, result, cli>>

\* no command line run: parseBUI is called as a library function
NoCli == [command |-> "none", file |-> <<>>, exit |-> <<>>]

NoCollected == [errors |-> <<>>, warnings |-> <<>>]

Init ==
  /\ pc = "idle"
  /\ disk = Disk
  /\ entryPath = Path(FALSE, <<>>)
  /\ options = [content |-> FALSE, withMetadata |-> FALSE, maxFileSize |-> 0, maxFiles |-> 0]
  /\ filesBlock = None
  /\ collected = NoCollected
  /\ includedFiles = <<>>
  /\ currentFile = Path(FALSE, <<>>)
  /\ lineOffset = 0
  /\ content = <<>>
  /\ pending = <<>>
  /\ ordinal = 0
  /\ ps = InitParse
  /\ result = None
  /\ cli = NoCli

\* parseFilesBlock throws unless the block is a non-empty JSON array of strings
parseFilesBlockThrows(fb) == fb.parse # "ok" \/ fb.list = <<>>

\* the path validation, had it stopped at the first rejected path
RECURSIVE pathErrors_firstOnly(_, _)
pathErrors_firstOnly(fileList, baseDir) ==
  IF fileList = <<>> THEN <<>>
  ELSE IF validateFilePath(Head(fileList), baseDir) # ""
  THEN <<createError(ErrorCode.INVALID_FILE_PATH, validateFilePath(Head(fileList), baseDir),
                     createParseContext(Head(fileList), TRUE, 0))>>
  ELSE pathErrors_firstOnly(Tail(fileList), baseDir)

\* the errors of the loop that validates the listed paths
RECURSIVE pathErrors(_, _)
pathErrors(fileList, baseDir) ==
  IF fileList = <<>> THEN <<>>
  ELSE (IF validateFilePath(Head(fileList), baseDir) # ""
        THEN <<createError(ErrorCode.INVALID_FILE_PATH, validateFilePath(Head(fileList), baseDir),
                           createParseContext(Head(fileList), TRUE, 0))>>
        ELSE <<>>)
       \o pathErrors(Tail(fileList), baseDir)

\* parseBUI returns early with r
Return(r, c) ==
  /\ pc' = "done"
  /\ result' = Some(r)
  /\ collected' = c
  /\ UNCHANGED <<includedFiles, currentFile, lineOffset, content, pending, ordinal, ps>>

\* the call of the block parser, had it tracked the current file by its
\* resolved path while includedFiles kept the path it was given
Parse_resolvedCurrent(files, extracted, c) ==
  /\ pc' = "entry"
  /\ includedFiles' = files
  /\ currentFile' = resolve1(files[1])
  /\ lineOffset' = 0
  /\ pending' = extracted
  /\ collected' = c
  /\ ps' = InitParse
  /\ UNCHANGED <<content, ordinal, result>>

\* parseBUI calls parseMergedContentWithSources(content, files, ...)
Parse(files, extracted, c) ==
  /\ pc' = "entry"
  /\ includedFiles' = files
  /\ currentFile' = files[1]
  /\ lineOffset' = 0
  /\ pending' = extracted
  /\ collected' = c
  /\ ps' = InitParse
  /\ UNCHANGED <<content, ordinal, result>>

\* the entry point test, had it accepted every file with the extension
isEntryPoint_anyBui(fileName) ==
  toLowerCase(extname(Path(FALSE, <<fileName>>))) = <<".", "b", "u", "i">>

\* fileName === "index.bui"
isEntryPoint(fileName) == fileName = Seg.IndexBui

\* parseBUI up to its return or its call of the block parser
parseBUI(ep, opt, fb) ==
  /\ pc = "idle"
  /\ entryPath' = ep
  /\ options' = opt
  /\ filesBlock' = fb
  /\ UNCHANGED <<disk, cli>>
  /\ LET entryContext == createParseContext(ep, TRUE, 0)
         one(code, msg) == shortCircuit(<<createError(code, msg, entryContext)>>, <<>>)
     IN IF opt.content
        THEN IF IsSome(fb)
             THEN Return(one(ErrorCode.INVALID_SYNTAX, "Multi-file projects are not supported"), NoCollected)
             ELSE Parse(<<ep>>, <<>>, NoCollected)
        ELSE IF ~existsSync(disk, resolve1(ep))
        THEN Return(one(ErrorCode.FILE_NOT_FOUND, "Entry file not found"), NoCollected)
        ELSE IF ~isEntryPoint(basename(ep))
        THEN Return(one(ErrorCode.INVALID_FILE_PATH, "Only index.bui files can be used as entry points"),
                    NoCollected)
        ELSE IF ~readFileSync(disk, resolve1(ep))
        THEN \* fs.readFileSync throws and the outer catch answers
             Return(one(ErrorCode.UNKNOWN_ERROR, "Unexpected error"), NoCollected)
        ELSE IF ~IsSome(fb)
        THEN Parse(<<resolve1(ep)>>, <<>>, NoCollected)
        ELSE IF parseFilesBlockThrows(Get(fb))
        THEN \* the catch builds its error around options.content, which is
             \* undefined here: extractContext throws on it and the outer
             \* catch answers
             LET catchContext == createParseContext(ep, opt.content, 0)
             IN IF extractContextThrows(catchContext)
                THEN Return(one(ErrorCode.UNKNOWN_ERROR, "Unexpected error"), NoCollected)
                ELSE Return(shortCircuit(<<createError(ErrorCode.INVALID_FILES_BLOCK,
                                                       "Failed to parse files block",
                                                       catchContext)>>, <<>>), NoCollected)
        ELSE LET fileList == Get(fb).list
                 errs == pathErrors(fileList, dirname(ep))
             IN IF errs # <<>>
                THEN Return(shortCircuit(errs, <<>>), [errors |-> errs, warnings |-> <<>>])
                ELSE LET merged == mergeBuiFiles(ep, fileList, opt, disk)
                         c == [errors |-> merged.errors, warnings |-> merged.warnings]
                     IN IF merged.errors # <<>>
                        THEN Return(shortCircuit(merged.errors, merged.warnings), c)
                        ELSE Parse(merged.includedFiles, merged.extracted, c)

\* blocks.forEach, on the next block b of the entry text
ParseEntryBlock(b) ==
  /\ pc = "entry"
  /\ content' = Append(content, b)
  /\ ordinal' = ordinal + 1
  /\ ps' = parseBlock(ps, b, ordinal + 1, currentFile, includedFiles[1], lineOffset)
  /\ UNCHANGED <<cli, pc, disk, entryPath, options, filesBlock, collected, includedFiles,
                 currentFile, lineOffset, pending, result>>

\* blocks.forEach, on the next block merged in from a listed file
ParseMergedBlock ==
  /\ pc \in {"entry", "merged"}
  /\ pending # <<>>
  /\ pc' = "merged"
  /\ pending' = Tail(pending)
  /\ content' = Append(content, Head(pending))
  /\ ordinal' = ordinal + 1
  /\ ps' = parseBlock(ps, Head(pending), ordinal + 1, currentFile, includedFiles[1], lineOffset)
  /\ UNCHANGED <<cli, disk, entryPath, options, filesBlock, collected, includedFiles,
                 currentFile, lineOffset, result>>

\* the end of parseMergedContentWithSources
Finish ==
  /\ pc \in {"entry", "merged"}
  /\ pending = <<>>
  /\ pc' = "done"
  /\ result' = Some(compileResult(ps, includedFiles, options.withMetadata))
  /\ UNCHANGED <<cli, disk, entryPath, options, filesBlock, collected, includedFiles,
                 currentFile, lineOffset, content, pending, ordinal, ps>>

Next ==
  \/ \E c \in Calls, fb \in FilesBlocks : parseBUI(c.entryPath, c.options, fb)
  \/ Len(content) + Len(pending) < MaxBlocks /\ \E b \in Blocks : ParseEntryBlock(b)
  \/ ParseMergedBlock
  \/ Finish

Spec == Init /\ [][Next]_vars

\* ------------------------------------------------- validator-only runs
\* every combination of the members the schema looks at
RichApis ==
  [url : {None, Some("https://ok"), Some("http://ok")},
   method : {Some("GET"), Some("POST"), Some("PUT")},
   fileParams : {None, Some(<<>>), Some(<<"f">>), Some(<<"f", "g">>)},
   bodyTemplate : {None, Some(<<>>), Some(<<{"f"}>>), Some(<<{WEBHOOK}>>),
                   Some(<<{"f"}, {WEBHOOK}>>), Some(<<{"f", "g", WEBHOOK}>>)},
   responseType : {Some("file"), Some("xml")},
   headers : {FALSE}, timeout : {FALSE}]

RichServices ==
  [name : {None, Some("B")},
   accepts : {None, Some(<<>>), Some(<<"txt">>), Some(<<"TXT">>)},
   inputs : {None, Some(<<[type |-> "radio", options |-> None]>>),
             Some(<<[type |-> "radio", options |-> Some(<<"x">>)]>>)},
   submit : {None, Some([label |-> "Process", action |-> "run"])},
   api : {Some(a) : a \in RichApis},
   description : {FALSE}, tags : {FALSE}]

RichBlocks == {BPodBlock("colon", Some("A"), "ok", sj) : sj \in RichServices}

\* the state in which parseBUI, given a content without files: block,
\* has called the block parser
InitV ==
  /\ pc = "entry"
  /\ disk = Disk
  /\ entryPath = Path(FALSE, <<Seg.IndexBui>>)
  /\ options = [content |-> TRUE, withMetadata |-> TRUE, maxFileSize |-> 0, maxFiles |-> 0]
  /\ filesBlock = None
  /\ collected = NoCollected
  /\ includedFiles = <<Path(FALSE, <<Seg.IndexBui>>)>>
  /\ currentFile = Path(FALSE, <<Seg.IndexBui>>)
  /\ lineOffset = 0
  /\ content = <<>>
  /\ pending = <<>>
  /\ ordinal = 0
  /\ ps = InitParse
  /\ result = None
  /\ cli = NoCli

NextV ==
  \/ content = <<>> /\ \E b \in RichBlocks : ParseEntryBlock(b)
  \/ Finish

SpecV == InitV /\ [][NextV]_vars

\* ------------------------------------------- runs on well-formed entries
\* single-file entries made of an accepted version block, valid profiles
\* and services that pass every check
WellFormedBlocks ==
  {VersionBlock("colon", <<"sp", "q", "1.0.0", "q">>),
   ProfileBlock("colon", "ok", MinimalProfile),
   ProfileBlock("colon", "ok", FullProfile),
   BPodBlock("colon", Some("A"), "ok", ValidService),
   BPodBlock("colon", Some("B"), "ok", ValidService),
   BPodBlock("colon", Some("A"), "ok", RenamedService),
   BPodBlock("colon", Some("B"), "ok", [ValidService EXCEPT !.name = Some("C")])}

NextW ==
  \/ \E opt \in OptionSet : parseBUI(Path(FALSE, <<Seg.IndexBui>>), opt, None)
  \/ Len(content) < MaxWellFormed /\ \E b \in WellFormedBlocks : ParseEntryBlock(b)
  \/ Finish

SpecW == Init /\ [][NextW]_vars

\* ------------------------------------------------ runs on file projects
\* file-system compilations over a project directory with an unreadable
\* file, files of several sizes and listed files that declare more than
\* services; the limits of the options are varied
DiskM ==
  LET File(size, readable, blocks) == [size |-> size, readable |-> readable, blocks |-> blocks]
  IN (Path(TRUE, <<Seg.W, Seg.P, Seg.IndexBui>>) :> File(10, TRUE, <<>>))
     @@ (Path(TRUE, <<Seg.W, Seg.P, Seg.MainBui>>) :> File(10, TRUE, <<>>))
     @@ (Path(TRUE, <<Seg.W, Seg.P, Seg.Q, Seg.IndexBui>>) :> File(10, FALSE, <<>>))
     @@ (Path(TRUE, <<Seg.W, Seg.P, Seg.ABui>>) :>
           File(20, TRUE, <<VersionBlock("colon", <<"sp", "q", "2.0.0", "q">>),
                            ProfileBlock("colon", "ok", FullProfile),
                            BPodBlock("colon", Some("A"), "ok", ValidService)>>))
     @@ (Path(TRUE, <<Seg.W, Seg.P, Seg.BBui>>) :>
           File(30, TRUE, <<BPodBlock("colon", Some("B"), "ok", ValidService),
                            BPodBlock("colon", Some("C"), "ok", NoWebhookService)>>))
     @@ (Path(TRUE, <<Seg.W, Seg.P, Seg.UBui>>) :>
           File(20, FALSE, <<BPodBlock("colon", Some("B"), "ok", ValidService)>>))

FileRefsM ==
  {Path(FALSE, <<Seg.ABui>>),
   Path(FALSE, <<Seg.BBui>>),
   Path(FALSE, <<Seg.UBui>>),
   Path(FALSE, <<Seg.NBui>>),
   Path(FALSE, <<Seg.DotDot, Seg.Q, Seg.YBui>>),
   Path(FALSE, <<Seg.ATxt>>)}

FilesBlocksM ==
  {None, Some([parse |-> "bad", list |-> <<>>])}
  \cup {Some([parse |-> "ok", list |-> l]) : l \in SeqsUpTo(FileRefsM, MaxList)}

CallsM ==
  [entryPath : {Path(FALSE, <<Seg.IndexBui>>), Path(FALSE, <<Seg.MainBui>>),
                Path(FALSE, <<Seg.Q, Seg.IndexBui>>), Path(FALSE, <<Seg.NBui>>)},
   options : [content : {FALSE}, withMetadata : {TRUE}, maxFileSize : {0, 5, 25},
              maxFiles : {0, 1}]]

EntryBlocksM ==
  {VersionBlock("colon", <<"sp", "q", "1.0.0", "q">>),
   ProfileBlock("colon", "ok", MinimalProfile),
   BPodBlock("colon", Some("A"), "ok", ValidService),
   BPodBlock("colon", Some("B"), "ok", ValidService),
   BPodBlock("colon", Some("A"), "ok", NoWebhookService)}

InitM ==
  /\ pc = "idle"
  /\ disk = DiskM
  /\ entryPath = Path(FALSE, <<>>)
  /\ options = [content |-> FALSE, withMetadata |-> FALSE, maxFileSize |-> 0, maxFiles |-> 0]
  /\ filesBlock = None
  /\ collected = NoCollected
  /\ includedFiles = <<>>
  /\ currentFile = Path(FALSE, <<>>)
  /\ lineOffset = 0
  /\ content = <<>>
  /\ pending = <<>>
  /\ ordinal = 0
  /\ ps = InitParse
  /\ result = None
  /\ cli = NoCli

NextM ==
  \/ \E c \in CallsM, fb \in FilesBlocksM : parseBUI(c.entryPath, c.options, fb)
  \/ Len(content) < MaxEntry /\ \E b \in EntryBlocksM : ParseEntryBlock(b)
  \/ ParseMergedBlock
  \/ Finish

SpecM == InitM /\ [][NextM]_vars

\* ------------------------------------------ runs on repeated profiles
MaxProfiles == 3

\* entry texts that hold several profile blocks, valid ones and rejected ones
ProfileRunBlocks ==
  {ProfileBlock("colon", "ok", MinimalProfile),
   ProfileBlock("colon", "ok", FullProfile),
   ProfileBlock("colon", "ok", NamelessProfile),
   ProfileBlock("colon", "bad", NoProfileJson),
   BPodBlock("colon", Some("A"), "ok", ValidService)}

NextP ==
  \/ Len(content) < MaxProfiles /\ \E b \in ProfileRunBlocks : ParseEntryBlock(b)
  \/ Finish

SpecP == InitV /\ [][NextP]_vars

\* ------------------------------------------------------ command line runs
Commands == {"compile", "validate", "render"}

\* the checks a command makes on its file argument before it compiles
preChecks(command, file) ==
  /\ existsSync(disk, resolve1(file))
  /\ command \in {"validate", "render"}
     => /\ extname(file) = <<".", "b", "u", "i">>
        /\ basename(file) = Seg.IndexBui
  /\ command = "validate" => validateFilePath(file, Path(TRUE, Cwd)) = ""

\* the options the command hands to parseBUI (render: through renderBUI)
cliOptions(command) ==
  IF command = "compile"
  THEN [content |-> FALSE, withMetadata |-> FALSE,
        maxFileSize |-> DefaultMaxFileSize, maxFiles |-> DefaultMaxFiles]
  ELSE [content |-> FALSE, withMetadata |-> TRUE, maxFileSize |-> 0, maxFiles |-> 0]

\* the exit code once the result is there: compile calls process.exit with
\* it, validate and render print the result and return, and a process
\* whose handler returns ends with code 0
exitCode(command, success) ==
  IF command = "compile" THEN (IF success THEN 0 ELSE 1) ELSE 0

\* the action handler up to the call of parseBUI / renderBUI
Command(command, file) ==
  /\ pc = "idle" /\ cli = NoCli
  /\ cli' = [command |-> command, file |-> Some(file),
             exit |-> IF preChecks(command, file) THEN None ELSE Some(1)]
  /\ UNCHANGED <<pc, disk, entryPath, options, filesBlock, collected, includedFiles,
                 currentFile, lineOffset, content, pending, ordinal, ps, result>>

\* the action handler after the call
Exit ==
  /\ pc = "done" /\ cli # NoCli /\ cli.exit = None
  /\ cli' = [cli EXCEPT !.exit = Some(exitCode(cli.command, Get(result).success))]
  /\ UNCHANGED <<pc, disk, entryPath, options, filesBlock, collected, includedFiles,
                 currentFile, lineOffset, content, pending, ordinal, ps, result>>

CliFiles ==
  {Path(FALSE, <<Seg.IndexBui>>), Path(FALSE, <<Seg.MainBui>>),
   Path(FALSE, <<Seg.Q, Seg.IndexBui>>), Path(FALSE, <<Seg.NBui>>)}

NextC ==
  \/ \E command \in Commands, file \in CliFiles : Command(command, file)
  \/ /\ cli # NoCli /\ cli.exit = None
     /\ \E fb \in FilesBlocksM : parseBUI(Get(cli.file), cliOptions(cli.command), fb)
  \/ Len(content) < MaxEntry /\ \E b \in EntryBlocksM : ParseEntryBlock(b)
  \/ ParseMergedBlock
  \/ Finish
  \/ Exit

SpecC == InitM /\ [][NextC]_vars

\* ------------------------------------------------------------ properties
Done == pc = "done"
R == Get(result)

\* parseBUI went on to the block parser (it did not return early)
ParserRan == includedFiles # <<>>

CountCode(diags, code) == Cardinality({i \in 1..Len(diags) : diags[i].code = code})

RemoveAt(s, j) == SubSeq(s, 1, j - 1) \o SubSeq(s, j + 1, Len(s))

\* blocks.forEach over a whole block list, from the parser's initial locals
RECURSIVE parseBlocks(_, _, _, _)
parseBlocks(acc, blocks, k, file) ==
  IF k > Len(blocks) THEN acc
  ELSE parseBlocks(parseBlock(acc, blocks[k], k, file, file, 0), blocks, k + 1, file)

\* the b-pod blocks whose header carries a usable name
IsNamedService(b) ==
  startsWithKw(b, "b-pod") /\ IsSome(b.name) /\ trimName(Get(b.name)) # ""

HeaderName(b) == trimName(Get(b.name))

IsGoodVersion(b) == startsWithKw(b, "version") /\ versionValue(b) = <<"1.0.0">>

IsBadVersion(b) == startsWithKw(b, "version") /\ versionValue(b) # <<"1.0.0">>

IsValidProfile(b) ==
  startsWithKw(b, "profile") /\ b.parse = "ok" /\ profileSchema(b.pj).st = "valid"

\* a service block that satisfies the schema and the two cross-field checks
IsWellFormedService(b) ==
  /\ IsNamedService(b)
  /\ b.parse = "ok"
  /\ LET bPod == mergeName(HeaderName(b), b.sj)
     IN /\ bPodSchema(bPod).st = "valid"
        /\ \A p \in {WEBHOOK} \cup Range(Get(Get(bPod.api).fileParams)) :
              TemplateHas(Get(Get(bPod.api).bodyTemplate), p)

Indices(blocks, P(_)) == {i \in 1..Len(blocks) : P(blocks[i])}

\* C1 (as claimed): a single-file entry with version "1.0.0", one valid
\* profile and N well-formed service blocks with pairwise distinct names
\* compiles with success = true, no errors and exactly N services.
C1_ValidSingleFile ==
  (/\ Done /\ ParserRan /\ ~IsSome(filesBlock)
   /\ \A i \in 1..Len(content) :
        IsGoodVersion(content[i]) \/ IsValidProfile(content[i]) \/ IsWellFormedService(content[i])
   /\ Cardinality(Indices(content, IsGoodVersion)) = 1
   /\ Cardinality(Indices(content, IsValidProfile)) = 1
   /\ \A i, j \in Indices(content, IsWellFormedService) :
        i # j => /\ HeaderName(content[i]) # HeaderName(content[j])
                 /\ mergeName(HeaderName(content[i]), content[i].sj).name
                      # mergeName(HeaderName(content[j]), content[j].sj).name)
  => /\ R.success
     /\ R.errors = <<>>
     /\ Len(R.ast.bPods) = Cardinality(Indices(content, IsWellFormedService))

\* C2 (as claimed): every input that declares a version literal other than
\* "1.0.0" gets exactly one INVALID_VERSION error and success = false.
C2_OneVersionError ==
  (/\ Done /\ ParserRan
   /\ Indices(content, IsBadVersion) # {})
  => /\ CountCode(R.errors, ErrorCode.INVALID_VERSION) = 1
     /\ ~R.success

\* C2 (amended): when the block parser runs, there is exactly one
\* INVALID_VERSION error for each block that starts with "version:" and
\* whose literal, quotes and blanks removed, is not 1.0.0; one such block
\* makes success false; a document is returned; a compilation that
\* returns before the block parser reports no INVALID_VERSION error.
C2_VersionErrorPerBlock ==
  Done =>
    /\ IsSome(result)
    /\ ParserRan =>
         /\ CountCode(R.errors, ErrorCode.INVALID_VERSION) = Cardinality(Indices(content, IsBadVersion))
         /\ (Indices(content, IsBadVersion) # {} => ~R.success)
    /\ ~ParserRan => CountCode(R.errors, ErrorCode.INVALID_VERSION) = 0

\* C2 witness: one rejected version block, one INVALID_VERSION error
C2_Witness ==
  /\ Done /\ ParserRan
  /\ Cardinality(Indices(content, IsBadVersion)) = 1
  /\ CountCode(R.errors, ErrorCode.INVALID_VERSION) = 1
  /\ ~R.success

\* the pairs of named service blocks that share their header name
SameNamePairs(blocks) ==
  {pr \in (1..Len(blocks)) \X (1..Len(blocks)) :
     /\ pr[1] < pr[2]
     /\ IsNamedService(blocks[pr[1]]) /\ IsNamedService(blocks[pr[2]])
     /\ HeaderName(blocks[pr[1]]) = HeaderName(blocks[pr[2]])}

\* C3 (as claimed): two service blocks that share a name, in one file or
\* in different merged files, give exactly one DUPLICATE_BPOD_NAME error
\* and the document holds only the first of them (it is the document of
\* the same content without the second block).
C3_DuplicateRejected ==
  (Done /\ ParserRan /\ Cardinality(SameNamePairs(content)) = 1)
  => \A pr \in SameNamePairs(content) :
       /\ CountCode(R.errors, ErrorCode.DUPLICATE_BPOD_NAME) = 1
       /\ R.ast.bPods = parseBlocks(InitParse, RemoveAt(content, pr[2]), 1, includedFiles[1]).bPods

\* C4 (as claimed): the names of the services of a returned document are
\* pairwise distinct.
C4_UniqueNames ==
  Done => \A i, j \in 1..Len(R.ast.bPods) : i # j => R.ast.bPods[i].name # R.ast.bPods[j].name

\* a resolved path lies in the subtree of a directory
RECURSIVE SegPrefix(_, _)
SegPrefix(dir, segs) ==
  IF dir = <<>> THEN TRUE
  ELSE IF segs = <<>> THEN FALSE
  ELSE Head(dir) = Head(segs) /\ SegPrefix(Tail(dir), Tail(segs))

InsideEntryDir(filePath) ==
  SegPrefix(resolve1(dirname(entryPath)).segs, resolve(dirname(entryPath), filePath).segs)

HasBuiExtension(filePath) == toLowerCase(extname(filePath)) = <<".", "b", "u", "i">>

\* the files: block of a file-system compilation was read as a list
FileListRead ==
  /\ Done /\ ~options.content
  /\ existsSync(disk, resolve1(entryPath)) /\ basename(entryPath) = Seg.IndexBui
  /\ readFileSync(disk, resolve1(entryPath))
  /\ IsSome(filesBlock) /\ ~parseFilesBlockThrows(Get(filesBlock))

FileList == Get(filesBlock).list

\* C5 (as claimed): a files: entry that resolves outside the entry file's
\* directory subtree, or whose extension is not .bui, yields an
\* INVALID_FILE_PATH error and never appears in includedFiles.
C5_PathSafety ==
  FileListRead =>
    \A i \in 1..Len(FileList) :
      (~InsideEntryDir(FileList[i]) \/ ~HasBuiExtension(FileList[i]))
      => /\ \E k \in 1..Len(R.errors) :
              R.errors[k].code = ErrorCode.INVALID_FILE_PATH /\ R.errors[k].file = FileList[i]
         /\ ~InSeq(includedFiles, resolve(dirname(entryPath), FileList[i]))

\* C6 (as claimed): a file listed twice in files: leaves exactly one
\* circular/duplicate-dependency warning in the compilation result and
\* its services are merged exactly once.
C6_ReinclusionWarning ==
  (/\ FileListRead /\ ParserRan
   /\ Len(FileList) = 2
   /\ resolve(dirname(entryPath), FileList[1]) = resolve(dirname(entryPath), FileList[2]))
  => /\ CountCode(R.warnings, W_CIRCULAR) = 1
     /\ mergeBuiFiles(entryPath, FileList, options, disk).extracted
          = extractBPodsFromContent(disk[resolve(dirname(entryPath), FileList[1])].blocks)

\* a step of blocks.forEach, and the block it parses
ParsesBlock == content' # content

Parsed == content'[Len(content')]

\* a service block that gets as far as validateBPod
ReachesValidation(b) ==
  IsNamedService(b) /\ b.parse = "ok" /\ ~nameTaken(ps.bPods, HeaderName(b))

NewErrors == {ps'.errors[k] : k \in (Len(ps.errors) + 1)..Len(ps'.errors)}

\* the bodyTemplate of the body omits {webhook_url} or a declared fileParam
TemplateIncomplete(sj) ==
  /\ IsSome(sj.api)
  /\ IsSome(Get(sj.api).bodyTemplate) /\ IsSome(Get(sj.api).fileParams)
  /\ \E p \in {WEBHOOK} \cup Range(Get(Get(sj.api).fileParams)) :
       ~TemplateHas(Get(Get(sj.api).bodyTemplate), p)

\* C7 (as claimed): a service whose bodyTemplate omits {webhook_url} or
\* the placeholder of a declared fileParam is not added to the document
\* and is reported with code BPOD_API_BODY_TEMPLATE_MISSING_WEBHOOK.
C7_BodyTemplateError ==
  [][(ParsesBlock /\ ReachesValidation(Parsed) /\ TemplateIncomplete(Parsed.sj))
       => /\ ps'.bPods = ps.bPods
          /\ \E e \in NewErrors : e.code = ErrorCode.BPOD_API_BODY_TEMPLATE_MISSING_WEBHOOK]_vars

\* a service body with method GET and a bodyTemplate of at least one key
GetWithBody(sj) ==
  /\ IsSome(sj.api)
  /\ Get(sj.api).method = Some("GET")
  /\ IsSome(Get(sj.api).bodyTemplate) /\ Len(Get(Get(sj.api).bodyTemplate)) > 0

C9_SuccessIffNoError ==
  Done => (R.success <=> \A k \in 1..Len(R.errors) : R.errors[k].severity # "error")

\* C9 witness: a result with warnings only, and success
C9_Witness ==
  /\ Done /\ R.warnings # <<>> /\ R.errors = <<>> /\ R.success

EmptyDocument == [version |-> <<"1.0.0">>, profile |-> None, bPods |-> <<>>]

EntryMissing == ~options.content /\ ~existsSync(disk, resolve1(entryPath))

EntryUnreadable ==
  /\ ~options.content
  /\ existsSync(disk, resolve1(entryPath)) /\ basename(entryPath) = Seg.IndexBui
  /\ ~readFileSync(disk, resolve1(entryPath))

\* the files: entries the path validation rejects
RejectedPaths ==
  {i \in 1..Len(FileList) : validateFilePath(FileList[i], dirname(entryPath)) # ""}

TraversalDetected ==
  /\ FileListRead
  /\ \E i \in 1..Len(FileList) :
       validateFilePath(FileList[i], dirname(entryPath)) = "Path traversal detected"

WrongEntryName ==
  /\ ~options.content
  /\ existsSync(disk, resolve1(entryPath))
  /\ entryPath.segs[Len(entryPath.segs)] # Seg.IndexBui

BadFilesBlock ==
  /\ ~options.content
  /\ existsSync(disk, resolve1(entryPath)) /\ basename(entryPath) = Seg.IndexBui
  /\ readFileSync(disk, resolve1(entryPath))
  /\ IsSome(filesBlock) /\ parseFilesBlockThrows(Get(filesBlock))

\* C13 (as claimed): in file-system mode a files: block that is not a
\* non-empty JSON array of strings gives success = false and exactly one
\* error, with code INVALID_FILES_BLOCK.
C13_InvalidFilesBlock ==
  (Done /\ BadFilesBlock)
  => /\ ~R.success
     /\ Len(R.errors) = 1
     /\ R.errors[1].code = ErrorCode.INVALID_FILES_BLOCK

\* a multi-file compilation that went through the block parser to its end
MergedAndParsed == FileListRead /\ ParserRan

\* the listed files that were merged, and the blocks the entry file gave
ListedFiles == SubSeq(includedFiles, 2, Len(includedFiles))

EntryPart ==
  SubSeq(content, 1,
         Len(content) - Len(mergeBuiFiles(entryPath, FileList, options, disk).extracted))

\* a merged listed file declares a version or a profile
MisplacedDeclaration ==
  \E i \in 1..Len(ListedFiles) :
    \E k \in 1..Len(disk[ListedFiles[i]].blocks) :
      \/ startsWithKw(disk[ListedFiles[i]].blocks[k], "version")
      \/ startsWithKw(disk[ListedFiles[i]].blocks[k], "profile")

\* C14 (as claimed): a version: or profile: block in a listed file other
\* than the entry file makes the compilation report an INVALID_SYNTAX
\* error with success = false, and the block never changes the version or
\* the profile of the document.
C14_MisplacedDeclarationFatal ==
  (MergedAndParsed /\ MisplacedDeclaration)
  => /\ \E k \in 1..Len(R.errors) : R.errors[k].code = ErrorCode.INVALID_SYNTAX
     /\ ~R.success
     /\ R.ast.version = parseBlocks(InitParse, EntryPart, 1, includedFiles[1]).version
     /\ R.ast.profile = parseBlocks(InitParse, EntryPart, 1, includedFiles[1]).profile

\* s is an order-preserving subsequence of t
RECURSIVE IsSubseq(_, _)
IsSubseq(s, t) ==
  IF s = <<>> THEN TRUE
  ELSE IF t = <<>> THEN FALSE
  ELSE IF Head(s) = Head(t) THEN IsSubseq(Tail(s), Tail(t))
  ELSE IsSubseq(s, Tail(t))

\* the services a block list declares, in block order
RECURSIVE DeclaredServices(_)
DeclaredServices(blocks) ==
  IF blocks = <<>> THEN <<>>
  ELSE IF IsNamedService(Head(blocks)) /\ Head(blocks).parse = "ok"
  THEN <<mergeName(HeaderName(Head(blocks)), Head(blocks).sj)>>
       \o DeclaredServices(Tail(blocks))
  ELSE DeclaredServices(Tail(blocks))

IsServiceBlock(b) == startsWithKw(b, "b-pod")

\* the service blocks of the listed files on disk, file after file
RECURSIVE FileServiceBlocks(_)
FileServiceBlocks(files) ==
  IF files = <<>> THEN <<>>
  ELSE SelectSeq(disk[Head(files)].blocks, IsServiceBlock) \o FileServiceBlocks(Tail(files))

ResolvedList == [i \in 1..Len(FileList) |-> resolve(dirname(resolve1(entryPath)), FileList[i])]

\* C15: the services of the document are in encounter order: the accepted
\* services of the entry file in block order, then those of each listed
\* file in the order the files are listed, each file's in block order.
C15_EncounterOrder ==
  (Done /\ ParserRan)
  => /\ IsSubseq(R.ast.bPods, DeclaredServices(content))
     /\ FileListRead
        => /\ IsSubseq(ListedFiles, ResolvedList)
           /\ LET fromFiles == FileServiceBlocks(ListedFiles)
              IN /\ Len(fromFiles) <= Len(content)
                 /\ SubSeq(content, Len(content) - Len(fromFiles) + 1, Len(content)) = fromFiles

\* C15 witness: the entry file declares a service and lists two files; the
\* document holds the entry's service first and a listed file's second
C15_Witness ==
  /\ MergedAndParsed
  /\ Len(ListedFiles) = 2
  /\ EntryPart # <<>> /\ IsNamedService(EntryPart[1])
  /\ Len(R.ast.bPods) = 2
  /\ R.ast.bPods[1].name = HeaderName(EntryPart[1])
  /\ R.ast.bPods[2].name = HeaderName(content[Len(content)])

\* for each service block merged in from the listed files, the file on disk
\* that holds it
RECURSIVE Provenance(_)
Provenance(files) ==
  IF files = <<>> THEN <<>>
  ELSE [i \in 1..Len(SelectSeq(disk[Head(files)].blocks, IsServiceBlock)) |-> Head(files)]
       \o Provenance(Tail(files))

\* the file that holds the block a parsing step takes
OriginOfParsed ==
  IF pending' # pending
  THEN Provenance(ListedFiles)[Len(Provenance(ListedFiles)) - Len(pending) + 1]
  ELSE includedFiles[1]

NewWarnings == {ps'.warnings[k] : k \in (Len(ps.warnings) + 1)..Len(ps'.warnings)}

NewFileMapEntries == Range(ps'.bPodFileMap) \ Range(ps.bPodFileMap)

\* C16 (as claimed): every service and every diagnostic is attributed to
\* the file that declares it: the bPodFileMap entry a block adds and the
\* file field of the diagnostics it raises name the file holding the block,
\* and the result's metadata carries that map.
C16_Attribution ==
  /\ [][ParsesBlock =>
          /\ \A d \in NewErrors \cup NewWarnings : d.file = OriginOfParsed
          /\ \A m \in NewFileMapEntries : m.file = OriginOfParsed]_vars
  /\ [](Done /\ ParserRan /\ options.withMetadata
          => Get(R.metadata).bPodFileMap = ps.bPodFileMap)

\* the file-system compilation read its entry file, index.bui
EntryRead ==
  /\ Done /\ ~options.content
  /\ existsSync(disk, resolve1(entryPath)) /\ basename(entryPath) = Seg.IndexBui
  /\ readFileSync(disk, resolve1(entryPath))

\* the files whose text the compilation draws on: the entry file and,
\* once the files: list passed the path validation, the listed files found
Contributing ==
  {resolve1(entryPath)}
  \cup (IF FileListRead /\ RejectedPaths = {}
        THEN {f \in Range(ResolvedList) : existsSync(disk, f)}
        ELSE {})

SizeLimit == orDefault(options.maxFileSize, DefaultMaxFileSize)

Oversized == {f \in Contributing : disk[f].size > SizeLimit}

\* C17 (as claimed): a file-system compilation that returns success = true
\* drew only on files of at most maxFileSize bytes, the entry file
\* included, with or without a files: list; an oversized contributing file
\* always yields a FILE_TOO_LARGE error.
C17_SizeCap ==
  /\ (EntryRead /\ R.success) => Oversized = {}
  /\ (EntryRead /\ ~BadFilesBlock /\ (IsSome(filesBlock) => RejectedPaths = {})
        /\ Oversized # {})
     => \E k \in 1..Len(R.errors) : R.errors[k].code = ErrorCode.FILE_TOO_LARGE

\* what mergeBuiFiles returned to parseBUI
Merged == mergeBuiFiles(entryPath, FileList, options, disk)

\* parseBUI called mergeBuiFiles with a list longer than maxFiles
TooManyListed ==
  /\ FileListRead /\ RejectedPaths = {}
  /\ Len(FileList) > orDefault(options.maxFiles, DefaultMaxFiles)

\* C18 (as claimed): given a list longer than maxFiles, mergeBuiFiles
\* reports TOO_MANY_FILES and stops: no listed file is read or merged, so
\* its includedFiles and its merged content hold nothing of a listed file.
C18_TooManyFilesStops ==
  TooManyListed
  => /\ \E k \in 1..Len(Merged.errors) : Merged.errors[k].code = ErrorCode.TOO_MANY_FILES
     /\ \A i \in 1..Len(Merged.includedFiles) : Merged.includedFiles[i] = resolve1(entryPath)
     /\ Merged.extracted = <<>>
     /\ \A i \in 1..Len(Merged.fileSizes) : Merged.fileSizes[i].file = resolve1(entryPath)

\* a listed file the merger cannot take: missing, too large or unreadable
FailsAlone(f) ==
  \/ ~existsSync(disk, f)
  \/ disk[f].size > SizeLimit
  \/ ~readFileSync(disk, f)

\* the merge met no project-wide error, and an error on some listed file
ListedFileFails ==
  /\ FileListRead /\ RejectedPaths = {}
  /\ disk[resolve1(entryPath)].size <= SizeLimit
  /\ Len(FileList) <= orDefault(options.maxFiles, DefaultMaxFiles)
  /\ \E i \in 1..Len(ResolvedList) : FailsAlone(ResolvedList[i])

\* C19 (as claimed): an error that concerns one listed file (not found, too
\* large, read failure) does not stop the rest of the compilation: the
\* error is reported, the other listed files are merged, and the result
\* holds their valid services.
C19_ListedFileErrorContinues ==
  ListedFileFails
  => /\ R.errors # <<>>
     /\ \A i \in 1..Len(ResolvedList) :
          ~FailsAlone(ResolvedList[i])
          => /\ InSeq(Merged.includedFiles, ResolvedList[i])
             /\ \A k \in 1..Len(disk[ResolvedList[i]].blocks) :
                  IsWellFormedService(disk[ResolvedList[i]].blocks[k])
                  => \E j \in 1..Len(R.ast.bPods) :
                        R.ast.bPods[j].name = HeaderName(disk[ResolvedList[i]].blocks[k])

\* splitBlocks cuts the text at the lines that hold only ---: before the
\* k-th block of a file lie k - 1 blocks of one line or more and k - 1
\* separator lines, so the block starts at this line or a later one
LeastStartLine(k) == 1 + 2 * (k - 1)

\* C20 (as claimed): a diagnostic raised for a block carries the 1-based
\* line, in the file that holds the block, at which the block starts (not
\* the block's ordinal): for the k-th block of the entry text that line is
\* LeastStartLine(k) or a later one.
C20_LineOfBlockStart ==
  [][(ParsesBlock /\ pending' = pending)
     => \A d \in NewErrors \cup NewWarnings : d.line >= LeastStartLine(ordinal')]_vars

\* a profile block with a valid name and description and neither logo nor
\* website
IsBareProfile(b) ==
  /\ startsWithKw(b, "profile") /\ b.parse = "ok"
  /\ IsSome(b.pj.name) /\ Get(b.pj.name) # ""
  /\ IsSome(b.pj.description) /\ Get(b.pj.description) # "long"
  /\ ~IsSome(b.pj.logo) /\ ~IsSome(b.pj.website)

\* C21: validateProfile accepts a profile with a valid name and description
\* and no logo and website: the data carries the default logo, the issues
\* hold one PROFILE_MISSING_LOGO and one PROFILE_MISSING_WEBSITE warning,
\* and parseBUI stores the profile, adds the two as warnings and adds no
\* error, so success is not lost.
C21_BareProfileAccepted ==
  [][(ParsesBlock /\ IsBareProfile(Parsed))
     => LET r == validateProfile(Parsed.pj)
        IN /\ r.success
           /\ r.data.logo = DEFAULT_LOGO
           /\ CountCode(r.issues, WarningCode.PROFILE_MISSING_LOGO) = 1
           /\ CountCode(r.issues, WarningCode.PROFILE_MISSING_WEBSITE) = 1
           /\ ps'.profile = Some(r.data)
           /\ ps'.errors = ps.errors
           /\ Len(ps'.warnings) = Len(ps.warnings) + 2
           /\ {w.code : w \in NewWarnings}
                = {WarningCode.PROFILE_MISSING_LOGO, WarningCode.PROFILE_MISSING_WEBSITE}
           /\ \A w \in NewWarnings : w.severity = "warning"]_vars

\* C21 witness: a compilation whose content holds such a profile ended with
\* success = true, the default logo and the two warnings
C21_Witness ==
  /\ Done /\ ParserRan
  /\ \E k \in 1..Len(content) : IsBareProfile(content[k])
  /\ R.success
  /\ IsSome(R.ast.profile) /\ Get(R.ast.profile).logo = DEFAULT_LOGO
  /\ CountCode(R.warnings, WarningCode.PROFILE_MISSING_LOGO) = 1
  /\ CountCode(R.warnings, WarningCode.PROFILE_MISSING_WEBSITE) = 1

\* the command compiled (or rendered) its file and the process ended
Ended == cli # NoCli /\ IsSome(cli.exit) /\ IsSome(result)

\* C22 (as claimed): a compile, validate or render command that compiled
\* its entry file ends the process with exit code 0 when the result has
\* success = true and with exit code 1 otherwise.
C22_ExitCode ==
  Ended => Get(cli.exit) = (IF R.success THEN 0 ELSE 1)

\* the parser's locals after the first k blocks of the content
After(k) == parseBlocks(InitParse, SubSeq(content, 1, k), 1, includedFiles[1])

\* the k-th block of the content yielded an error
YieldsError(k) == Len(After(k).errors) > Len(After(k - 1).errors)

Document(p) == [version |-> p.version, profile |-> p.profile, bPods |-> p.bPods]

CrossFieldRules(bPod) ==
  /\ IsSome(bPod.api)
  /\ IsSome(Get(bPod.api).bodyTemplate) /\ IsSome(Get(bPod.api).fileParams)
  /\ \A p \in {WEBHOOK} \cup Range(Get(Get(bPod.api).fileParams)) :
       TemplateHas(Get(Get(bPod.api).bodyTemplate), p)
  /\ IsSome(bPod.accepts) /\ Get(bPod.accepts) # <<>>
  /\ \A e \in Range(Get(bPod.accepts)) : IsLowerAlnum(e)
  /\ IsSome(bPod.inputs)
     => \A inp \in Range(Get(bPod.inputs)) :
          inp.type \in {"radio", "dropdown"}
          => IsSome(inp.options) /\ Get(inp.options) # <<>>

\* C24: every service of the document of a CompileResult satisfies the
\* cross-field rules: its bodyTemplate holds {webhook_url} and {p} for every
\* declared fileParam p, its accepts list is non-empty and lowercase
\* alphanumeric, and its radio and dropdown inputs have options.
C24_CrossFieldRules ==
  Done => \A i \in 1..Len(R.ast.bPods) : CrossFieldRules(R.ast.bPods[i])

\* C24 witness: the document holds a service with two file parameters and a
\* radio input
C24_Witness ==
  /\ Done /\ Len(R.ast.bPods) = 1
  /\ Len(Get(Get(R.ast.bPods[1].api).fileParams)) = 2
  /\ IsSome(R.ast.bPods[1].inputs)
  /\ \E inp \in Range(Get(R.ast.bPods[1].inputs)) : inp.type = "radio"

\* the accepts list of the body holds an entry that is not made of
\* lowercase letters and digits only
BadAcceptsEntry(sj) ==
  IsSome(sj.accepts) /\ \E e \in Range(Get(sj.accepts)) : ~IsLowerAlnum(e)

\* C25 (as claimed): a service block whose accepts list holds an entry that
\* is not made of lowercase letters and digits only is rejected with an
\* error of code BPOD_ACCEPTS_INVALID_FORMAT (E203).
C25_AcceptsFormatError ==
  [][(ParsesBlock /\ ReachesValidation(Parsed) /\ BadAcceptsEntry(Parsed.sj))
     => /\ ps'.bPods = ps.bPods
        /\ \E e \in NewErrors : e.code = ErrorCode.BPOD_ACCEPTS_INVALID_FORMAT]_vars

\* a service body whose api has method GET
IsGet(sj) == IsSome(sj.api) /\ Get(sj.api).method = Some("GET")

IsUnknownDeclaration(b) ==
  /\ includesColon(b)
  /\ ~startsWithKw(b, "version") /\ ~startsWithKw(b, "profile") /\ ~startsWithKw(b, "b-pod")

ValidProfiles(blocks) == {k \in 1..Len(blocks) : IsValidProfile(blocks[k])}

Last(S) == CHOOSE k \in S : \A j \in S : j <= k

\* C28: with several profile: blocks in the entry file, a profile block
\* raises the diagnostics it raises when it stands alone (none for the
\* repetition), the document's profile is the validated data of the last
\* profile block that passed validation, and a later profile block that
\* fails validation or JSON parsing leaves an accepted profile in place.
C28_LastValidProfile ==
  /\ [][(ParsesBlock /\ startsWithKw(Parsed, "profile"))
         => LET alone == parseBlock(InitParse, Parsed, ordinal', currentFile,
                                    includedFiles[1], lineOffset)
            IN /\ ps'.errors = ps.errors \o alone.errors
               /\ ps'.warnings = ps.warnings \o alone.warnings
               /\ ~IsValidProfile(Parsed) => ps'.profile = ps.profile]_vars
  /\ []((Done /\ ParserRan)
         => R.ast.profile =
              IF ValidProfiles(content) = {} THEN None
              ELSE Some(validateProfile(content[Last(ValidProfiles(content))].pj).data))

\* C28 witness: two different valid profiles, then a rejected one; the
\* document holds the second
C28_Witness ==
  /\ Done /\ Len(content) = 3
  /\ ValidProfiles(content) = {1, 2} /\ content[1] # content[2]
  /\ startsWithKw(content[3], "profile")
  /\ R.ast.profile = Some(validateProfile(content[2].pj).data)
  /\ R.ast.profile # Some(validateProfile(content[1].pj).data)

\* the stats member of the MergeResult
mergeStats(m) ==
  [totalFiles |-> Len(m.includedFiles), totalSize |-> m.totalSize, fileSizes |-> m.fileSizes]

RECURSIVE SumSizes(_)
SumSizes(files) ==
  IF files = <<>> THEN 0 ELSE disk[Head(files)].size + SumSizes(Tail(files))

\* parseBUI called mergeBuiFiles on a readable entry file
MergeCalled == FileListRead /\ RejectedPaths = {}

\* C29: in the MergeResult of a readable entry file, includedFiles starts
\* with the resolved entry path and has no duplicates, stats.totalFiles is
\* its length, the keys of stats.fileSizes are exactly the included files,
\* stats.totalSize is the sum of their sizes, and a listed file that was
\* skipped is in none of them.
C29_MergeStats ==
  MergeCalled
  => LET inc == Merged.includedFiles
         stats == mergeStats(Merged)
     IN /\ inc # <<>> /\ inc[1] = resolve1(entryPath)
        /\ \A i, j \in 1..Len(inc) : i # j => inc[i] # inc[j]
        /\ stats.totalFiles = Len(inc)
        /\ {stats.fileSizes[i].file : i \in 1..Len(stats.fileSizes)} = Range(inc)
        /\ Len(stats.fileSizes) = Len(inc)
        /\ \A i \in 1..Len(stats.fileSizes) :
             stats.fileSizes[i].size = disk[stats.fileSizes[i].file].size
        /\ stats.totalSize = SumSizes(inc)
        /\ \A i \in 1..Len(ResolvedList) :
             FailsAlone(ResolvedList[i]) => ~InSeq(inc, ResolvedList[i])

\* C29 witness: of two listed files one was skipped with an error and the
\* other merged
C29_Witness ==
  /\ MergeCalled /\ Len(FileList) = 2
  /\ Len(Merged.includedFiles) = 2
  /\ \E i \in 1..2 : existsSync(disk, ResolvedList[i]) /\ FailsAlone(ResolvedList[i])
  /\ mergeStats(Merged).totalSize = SumSizes(Merged.includedFiles)

\* the codes of a diagnostic list, in order
CodesOf(diags) == [i \in 1..Len(diags) |-> diags[i].code]

\* the path the other mode records for the same text: content mode keeps
\* entryPath as given, single-file mode resolves it
TwinPath == IF options.content THEN resolve1(entryPath) ELSE entryPath

\* the result of compiling the same blocks in the other mode
Twin ==
  compileResult(parseBlocks(InitParse, content, 1, TwinPath), <<TwinPath>>, options.withMetadata)

\* a run without a files: block that reached the block parser on an
\* index.bui entry with at least one block
SingleText ==
  /\ Done /\ ParserRan /\ ~IsSome(filesBlock)
  /\ basename(entryPath) = Seg.IndexBui
  /\ content # <<>>

\* C30: compiling a text without a files: block in direct content mode and
\* compiling an index.bui file holding it in single-file mode give the
\* same document, the same success flag and the same error and warning
\* codes in the same order; the recorded file path is all that differs.
C30_ContentModeEquivalence ==
  SingleText =>
    /\ R.ast = Twin.ast
    /\ R.success = Twin.success
    /\ CodesOf(R.errors) = CodesOf(Twin.errors)
    /\ CodesOf(R.warnings) = CodesOf(Twin.warnings)
    /\ [i \in 1..Len(R.errors) |-> R.errors[i].line] = [i \in 1..Len(Twin.errors) |-> Twin.errors[i].line]

\* a content-mode run with a version, a profile and a rejected block
C30_Witness ==
  /\ SingleText
  /\ options.content
  /\ \E i \in 1..Len(content) : startsWithKw(content[i], "version")
  /\ \E i \in 1..Len(content) : startsWithKw(content[i], "profile")
  /\ R.errors # <<>>
  /\ R.ast = Twin.ast

====
